---- MODULE Spec2Model ----
(***************************************************************************)
(* Model of the PM2.5 query workflow (src/src/graphs/pm_query_workflow.py):*)
(* PMQueryWorkflow.process_query runs the compiled graph                    *)
(*   parse_query -> search_location -> handle_disambiguation                *)
(*     -> (END when waiting_for_user | fetch_pm_data -> format_response)    *)
(* and PMQueryWorkflow.continue_with_selection resumes a state the caller   *)
(* holds.  The two agents (location_agent, pm_agent) are collaborators:     *)
(* their answers are inputs chosen from small sets.                         *)
(*                                                                          *)
(* Conventions.                                                             *)
(*  - A Python Optional is a set: {} is None, {x} is the value x.           *)
(*  - A Python str that the code takes apart (the query, the search term)   *)
(*    is a sequence of one-character strings.                               *)
(*  - The response text is the sequence of the pieces the code concatenates;*)
(*    <<>> is the empty string "".  Emoji are written as ASCII tags:        *)
(*    "[x]" is the cross mark, "[green]" ... "[brown]" the coloured circles,*)
(*    "[?]" the question mark.                                              *)
(*  - A PM2.5 reading is an integer number of tenths (452 is 45.2).         *)
(***************************************************************************)
EXTENDS Integers, Sequences, FiniteSets, TLC

VARIABLES
    pc,              \* position of the call in flight, or "idle"
    op,              \* "none" | "start" | "resume": the entry point of the call
    state,           \* the PMQueryState the graph nodes pass along
    held,            \* Optional: the state object the caller holds (argument of resume)
    selected_idx,    \* the selected_idx argument of continue_with_selection
    inState,         \* Optional: the caller's object as it was when resume was called
    resolverCalls,   \* location_agent.run calls made by the call in flight
    fetcherCalls,    \* pm_agent.run calls made by the call in flight
    resolverResult,  \* Optional: what location_agent.run returned in this call
    fetchArgs,       \* Optional: the input_data of pm_agent.run in this call
    fetchResult,     \* Optional: what pm_agent.run returned in this call
    exc,             \* the exception that ended the call, "" if none
    prev,            \* Optional: how the last continue_with_selection on the held object ended
    queryArg,        \* the query argument of the process_query in flight
    searchRows,      \* Optional: what the location search gave the location agent in this call
    other,           \* a second caller and its call, suspended at an await
    metricRows,      \* Optional: what the PM2.5 query gave the PM agent in this call
    request,         \* Optional: the body of the POST /query/select in progress
    workflow_state,        \* the HTTP chat session: Optional paused state
    waiting_for_selection, \* the HTTP chat session: the options are to be shown
    last_error,            \* the HTTP chat session: Optional failed request
    pending_retry,         \* the HTTP chat session: Optional request to replay
    selected,        \* how the selection request just answered was issued, "" if none was
    fetched,         \* successful selection requests for the paused state last received
    cache,           \* InMemoryCache.cache: the entries by key
    stats,           \* InMemoryCache.stats
    now,             \* datetime.now()
    tasks,           \* the get_or_compute calls in flight
    computed,        \* compute_fn invocations for each key
    lastCall         \* Optional: the cache as it was before the get just made, and its result

vars == <<pc, op, state, held, selected_idx, inState, resolverCalls, fetcherCalls,
          resolverResult, fetchArgs, fetchResult, exc, prev, queryArg, searchRows, other,
          metricRows, request, workflow_state, waiting_for_selection, last_error,
          pending_retry, selected, fetched, cache, stats, now, tasks, computed, lastCall>>

\* the workflow call in flight and its caller
callVars == <<pc, op, state, held, selected_idx, inState, resolverCalls, fetcherCalls,
              resolverResult, fetchArgs, fetchResult, exc, prev, queryArg, searchRows, other,
              metricRows, request>>

\* the session of ui/streamlit_pm_query.py
frontVars == <<workflow_state, waiting_for_selection, last_error, pending_retry, selected,
               fetched>>

\* the InMemoryCache and its callers
cacheVars == <<cache, stats, now, tasks, computed, lastCall>>

(***************************************************************************)
(* Bounds and input sets.                                                   *)
(***************************************************************************)
MaxLocations == 2    \* longest candidate list the location agent returns

None == {}
Some(x) == {x}
IsSet(o) == o # {}
The(o) == CHOOSE x \in o : TRUE

\* The location records the resolver formats (code, level, name, display_name;
\* "[pin]" and "[pushpin]" stand for the emoji of the level).
LocA == [code |-> "ARARIA_D", level |-> "district", name |-> "Araria",
         display_name |-> "[pin] District: Araria | State: Bihar"]
LocB == [code |-> "ARARIA_SD", level |-> "sub_district", name |-> "Araria",
         display_name |-> "[pushpin] Sub-district: Araria | District: Araria | State: Bihar"]
Candidates == {LocA, LocB}

RECURSIVE SeqsUpTo(_, _)
SeqsUpTo(S, n) ==
    IF n = 0 THEN {<<>>}
    ELSE LET shorter == SeqsUpTo(S, n - 1)
         IN  shorter \cup {Append(s, x) : s \in {t \in shorter : Len(t) = n - 1}, x \in S}

\* What location_agent.run may return: a dict whose "locations" and
\* "needs_disambiguation" keys may each be missing.
ResolverResults ==
    [locations : {None} \cup {Some(l) : l \in SeqsUpTo(Candidates, MaxLocations)},
     needs_disambiguation : {None, Some(TRUE), Some(FALSE)}]

\* Readings in tenths of a microgram, around the category thresholds.
PMValues == {300, 301, 1452}

NoDataMsg == "No PM2.5 data available for this location"

\* What pm_agent.run may return.
FetchResults ==
    {[success |-> TRUE, pm25_value |-> Some(v), timestamp |-> Some("2025-09-22T10:00:00Z"),
      station_count |-> 3, error |-> None] : v \in PMValues}
    \cup {[success |-> TRUE, pm25_value |-> Some(450), timestamp |-> None,
           station_count |-> 0, error |-> None],
          [success |-> TRUE, pm25_value |-> None, timestamp |-> None,
           station_count |-> 0, error |-> None]}
    \cup {[success |-> FALSE, pm25_value |-> None, timestamp |-> None,
           station_count |-> 0, error |-> e] : e \in {None, Some(""), Some(NoDataMsg)}}

\* Queries: "PM in a", "air b".
Queries == {<<"P", "M", " ", "i", "n", " ", "a">>, <<"a", "i", "r", " ", "b">>}

(***************************************************************************)
(* Python string operations used by parse_query, on character sequences.    *)
(***************************************************************************)
LowerChar(c) ==
    CASE c = "P" -> "p" [] c = "M" -> "m" [] c = "A" -> "a" [] c = "I" -> "i"
      [] c = "N" -> "n" [] c = "X" -> "x" [] OTHER -> c

\* str.lower()
Lower(s) == [i \in 1..Len(s) |-> LowerChar(s[i])]

IsSpace(c) == c \in {" ", "\t", "\n"}

\* sep occurs in s starting at position i
OccursAt(s, sep, i) ==
    /\ i >= 1
    /\ i + Len(sep) - 1 <= Len(s)
    /\ SubSeq(s, i, i + Len(sep) - 1) = sep

\* sep in s
Contains(s, sep) == \E i \in 1..Len(s) : OccursAt(s, sep, i)

\* s.split(sep)[-1] restricted to s[from..]: str.split scans left to right and
\* its matches do not overlap; the last piece is what follows the last match.
RECURSIVE LastPieceFrom(_, _, _)
LastPieceFrom(s, sep, from) ==
    LET hits == {j \in from..Len(s) : OccursAt(s, sep, j)}
    IN  IF hits = {} THEN SubSeq(s, from, Len(s))
        ELSE LET j == CHOOSE k \in hits : \A m \in hits : k <= m
             IN  LastPieceFrom(s, sep, j + Len(sep))

SplitLast(s, sep) == LastPieceFrom(s, sep, 1)

\* str.strip()
Strip(s) ==
    LET keep == {i \in 1..Len(s) : ~IsSpace(s[i])}
    IN  IF keep = {} THEN <<>>
        ELSE LET lo == CHOOSE i \in keep : \A j \in keep : i <= j
                 hi == CHOOSE i \in keep : \A j \in keep : i >= j
             IN  SubSeq(s, lo, hi)

\* the first word where the last one is meant
FirstWord(s) ==
    LET t == Strip(s)
        gaps == {i \in 1..Len(t) : IsSpace(t[i])}
    IN  IF gaps = {} THEN t
        ELSE LET g == CHOOSE i \in gaps : \A j \in gaps : i <= j
             IN  SubSeq(t, 1, g - 1)

\* words = s.split(); words[-1] if words else ""
LastWord(s) ==
    LET t == Strip(s)
        gaps == {i \in 1..Len(t) : IsSpace(t[i])}
    IN  IF gaps = {} THEN t
        ELSE LET g == CHOOSE i \in gaps : \A j \in gaps : i >= j
             IN  SubSeq(t, g + 1, Len(t))

SepIn == <<" ", "i", "n", " ">>
SepAt == <<" ", "a", "t", " ">>
SepFor == <<" ", "f", "o", "r", " ">>

\* parse_query: the location term of a query
ExtractTerm(user_query) ==
    LET query == Lower(user_query)
    IN  IF Contains(query, SepIn) THEN Strip(SplitLast(query, SepIn))
        ELSE IF Contains(query, SepAt) THEN Strip(SplitLast(query, SepAt))
        ELSE IF Contains(query, SepFor) THEN Strip(SplitLast(query, SepFor))
        ELSE LastWord(query)

(***************************************************************************)
(* PMQueryState and the graph nodes, as functions of the state.             *)
(***************************************************************************)
\* dict.get(key, default) on a key that may be missing
Get(o, default) == IF IsSet(o) THEN The(o) ELSE default

\* Python truthiness of an Optional[str]: None and "" are falsy
TruthyStr(o) == IsSet(o) /\ The(o) # ""

\* process_query: the initial_state it builds
initial_state(query) ==
    [user_query |-> query,
     waiting_for_user |-> FALSE,
     locations |-> <<>>,
     needs_disambiguation |-> FALSE,
     selected_location |-> None,
     pm_data |-> None,
     response |-> <<>>,
     error |-> None,
     location_search_term |-> <<>>]

parse_query(s) == [s EXCEPT !.location_search_term = ExtractTerm(s.user_query)]

\* a search_location that takes a missing flag for a set one
search_location_default_true(s, result) ==
    [s EXCEPT !.locations = Get(result.locations, <<>>),
              !.needs_disambiguation = Get(result.needs_disambiguation, TRUE)]

\* a search_location that reuses the candidates another call has resolved
search_location_shared(s, result) ==
    LET r == IF IsSet(other.resolverResult) THEN The(other.resolverResult) ELSE result
    IN  [s EXCEPT !.locations = Get(r.locations, <<>>),
                  !.needs_disambiguation = Get(r.needs_disambiguation, FALSE)]

search_location(s, result) ==
    [s EXCEPT !.locations = Get(result.locations, <<>>),
              !.needs_disambiguation = Get(result.needs_disambiguation, FALSE)]

\* the pause test written with "or" in place of "and"
handle_disambiguation_or(s) ==
    IF s.needs_disambiguation \/ Len(s.locations) > 1
    THEN [s EXCEPT !.waiting_for_user = TRUE]
    ELSE IF s.locations # <<>>
    THEN [s EXCEPT !.selected_location = Some(s.locations[1]),
                   !.waiting_for_user = FALSE]
    ELSE [s EXCEPT !.error = Some("No location found"),
                   !.waiting_for_user = FALSE]

\* a handle_disambiguation that takes the last candidate when it does not pause
handle_disambiguation_last(s) ==
    IF s.needs_disambiguation /\ Len(s.locations) > 1
    THEN [s EXCEPT !.waiting_for_user = TRUE]
    ELSE IF s.locations # <<>>
    THEN [s EXCEPT !.selected_location = Some(s.locations[Len(s.locations)]),
                   !.waiting_for_user = FALSE]
    ELSE [s EXCEPT !.error = Some("No location found"),
                   !.waiting_for_user = FALSE]

handle_disambiguation(s) ==
    IF s.needs_disambiguation /\ Len(s.locations) > 1
    THEN [s EXCEPT !.waiting_for_user = TRUE]
    ELSE IF s.locations # <<>>
    THEN [s EXCEPT !.selected_location = Some(s.locations[1]),
                   !.waiting_for_user = FALSE]
    ELSE [s EXCEPT !.error = Some("No location found"),
                   !.waiting_for_user = FALSE]

\* a routing that never stops at the pause
RouteAlwaysContinue(s) == "fetch_pm_data"

\* the conditional edge after handle_disambiguation: "wait" -> END,
\* "continue" -> fetch_pm_data
RouteAfterDisambiguation(s) ==
    IF s.waiting_for_user THEN "returned" ELSE "fetch_pm_data"

\* a fetch that is tried again when it left an error
AfterFetchRetry(s) ==
    IF TruthyStr(s.error) THEN "fetch_pm_data" ELSE "format_response"

\* the edge fetch_pm_data -> format_response (in continue_with_selection the
\* two nodes are called one after the other)
AfterFetch(s) == "format_response"

\* fetch_pm_data, first branch: no selected location, no agent call
fetch_no_selection(s) == [s EXCEPT !.error = Some("No location selected")]

\* an input_data built with the location's name where its code belongs
fetch_input_wrong_key(s) ==
    LET location == The(s.selected_location)
    IN  [location_code |-> location.name,
         location_level |-> location.level,
         location_name |-> location.name]

\* the input_data fetch_pm_data hands to pm_agent.run
fetch_input(s) ==
    LET location == The(s.selected_location)
    IN  [location_code |-> location.code,
         location_level |-> location.level,
         location_name |-> location.name]

\* a fetch_pm_data that does not carry the query and the candidates over
fetch_pm_data_forgets(s, result) ==
    [s EXCEPT !.pm_data = IF result.success THEN Some(result) ELSE None,
              !.error = IF ~result.success THEN result.error ELSE None,
              !.user_query = <<>>,
              !.locations = <<>>]

\* a fetch_pm_data that leaves an earlier error in place on success
fetch_pm_data_keeps_error(s, result) ==
    [s EXCEPT !.pm_data = IF result.success THEN Some(result) ELSE None,
              !.error = IF ~result.success THEN result.error ELSE s.error]

\* a fetch_pm_data that stores the agent's answer whether it succeeded or not
fetch_pm_data_keeps_result(s, result) ==
    [s EXCEPT !.pm_data = Some(result),
              !.error = IF ~result.success THEN result.error ELSE None]

\* fetch_pm_data, after pm_agent.run returned result
fetch_pm_data(s, result) ==
    [s EXCEPT !.pm_data = IF result.success THEN Some(result) ELSE None,
              !.error = IF ~result.success THEN result.error ELSE None]

\* the bands with their upper ends left out
AirQualityCategoryStrict(pm25_value) ==
    IF ~IsSet(pm25_value) THEN <<"Unknown", "[?]">>
    ELSE LET v == The(pm25_value)
         IN  IF v < 300 THEN <<"Good", "[green]">>
             ELSE IF v < 600 THEN <<"Satisfactory", "[yellow]">>
             ELSE IF v < 900 THEN <<"Moderate", "[orange]">>
             ELSE IF v < 1200 THEN <<"Poor", "[red]">>
             ELSE IF v < 2500 THEN <<"Very Poor", "[purple]">>
             ELSE <<"Severe", "[brown]">>

\* _get_air_quality_category: <<category, emoji>> of a reading in tenths
AirQualityCategory(pm25_value) ==
    IF ~IsSet(pm25_value) THEN <<"Unknown", "[?]">>
    ELSE LET v == The(pm25_value)
         IN  IF v <= 300 THEN <<"Good", "[green]">>
             ELSE IF v <= 600 THEN <<"Satisfactory", "[yellow]">>
             ELSE IF v <= 900 THEN <<"Moderate", "[orange]">>
             ELSE IF v <= 1200 THEN <<"Poor", "[red]">>
             ELSE IF v <= 2500 THEN <<"Very Poor", "[purple]">>
             ELSE <<"Severe", "[brown]">>

\* _get_health_advisory
HealthAdvisory(category) ==
    CASE category = "Poor" ->
            "Sensitive groups should reduce prolonged outdoor activities."
      [] category = "Very Poor" ->
            "Avoid outdoor activities. Use masks if going outside."
      [] category = "Severe" -> "Stay indoors. Avoid all outdoor activities."
      [] OTHER -> ""

\* the reading without its decimal
FormatWhole(v) ==
    LET a == IF v < 0 THEN 0 - v ELSE v
    IN  (IF v < 0 THEN "-" ELSE "") \o ToString(a \div 10)

\* f"{pm_value:.1f}" of a reading given in tenths
Format1f(v) ==
    LET a == IF v < 0 THEN 0 - v ELSE v
    IN  (IF v < 0 THEN "-" ELSE "") \o ToString(a \div 10) \o "." \o ToString(a % 10)

\* level.replace('_', ' ').title() for the levels the location search knows
LevelTitle(level) ==
    CASE level = "district" -> "District"
      [] level = "district_hq" -> "District Hq"
      [] level = "sub_district" -> "Sub District"
      [] level = "ward" -> "Ward"
      [] OTHER -> level

\* format_response raises TypeError: None has no format spec ".1f"
FormatRaises(s) ==
    /\ ~TruthyStr(s.error)
    /\ IsSet(s.pm_data)
    /\ ~IsSet(The(s.pm_data).pm25_value)

\* the text format_response builds from pm_data
PmText(s) ==
    LET data == The(s.pm_data)
        location == The(s.selected_location)
        cat == AirQualityCategory(data.pm25_value)
        category == cat[1]
        emoji == cat[2]
    IN  <<emoji, " **PM2.5 level in ", location.name, "**\n\n",
          "[chart] **Current Level:** ", Format1f(The(data.pm25_value)), " ug/m3\n",
          "[pin] **Location Type:** ", LevelTitle(location.level), "\n",
          "[tag] **Category:** ", category, "\n">>
        \o (IF TruthyStr(data.timestamp)
            THEN <<"[clock] **Last Updated:** ", The(data.timestamp), "\n">>
            ELSE <<>>)
        \o (IF data.station_count # 0
            THEN <<"[antenna] **Data from:** ", ToString(data.station_count), " stations\n">>
            ELSE <<>>)
        \o (IF category \in {"Poor", "Very Poor", "Severe"}
            THEN <<"\n[warning] **Health Advisory:** ", HealthAdvisory(category)>>
            ELSE <<>>)

CouldNotFetch == <<"Could not fetch PM2.5 data">>

\* a format_response that does not look at the error
format_response_ignores_error(s) ==
    [s EXCEPT !.response = IF IsSet(s.pm_data) THEN PmText(s) ELSE CouldNotFetch]

\* a format_response without its last branch
format_response_no_fallback(s) ==
    [s EXCEPT !.response =
        IF TruthyStr(s.error) THEN <<"[x] ", The(s.error)>>
        ELSE IF IsSet(s.pm_data) THEN PmText(s)
        ELSE <<>>]

format_response(s) ==
    [s EXCEPT !.response =
        IF TruthyStr(s.error) THEN <<"[x] ", The(s.error)>>
        ELSE IF IsSet(s.pm_data) THEN PmText(s)
        ELSE CouldNotFetch]

\* locations[selected_idx] in Python: a negative index counts from the end,
\* an index outside [-len, len) raises IndexError
IndexInRange(locations, idx) == 0 - Len(locations) <= idx /\ idx < Len(locations)

PyIndex(locations, idx) ==
    IF idx >= 0 THEN locations[idx + 1] ELSE locations[Len(locations) + idx + 1]

\* a selection that takes the chosen entry out of the caller's list
select_location_pops(s, idx) ==
    LET p == IF idx >= 0 THEN idx + 1 ELSE Len(s.locations) + idx + 1
    IN  [s EXCEPT !.selected_location = Some(s.locations[p]),
                  !.waiting_for_user = FALSE,
                  !.locations = SubSeq(s.locations, 1, p - 1)
                                \o SubSeq(s.locations, p + 1, Len(s.locations))]

\* a selection that ignores the index
select_first_location(s, idx) ==
    [s EXCEPT !.selected_location = Some(s.locations[1]),
              !.waiting_for_user = FALSE]

\* continue_with_selection: what it writes into the state object it was given
select_location(s, idx) ==
    [s EXCEPT !.selected_location = Some(PyIndex(s.locations, idx)),
              !.waiting_for_user = FALSE]

\* a resumption that runs the location search again
ResumeFromSearch == "search_location"

\* continue_with_selection: the node it continues from
ResumeEntry == "fetch_pm_data"

(***************************************************************************)
(* The calls.                                                               *)
(***************************************************************************)
\* the indices a caller may pass to continue_with_selection
Indices == (0 - MaxLocations - 1)..(MaxLocations + 1)

NoState == initial_state(<<>>)

\* a caller that holds nothing and has no call in flight
IdleCall ==
    [pc |-> "idle", op |-> "none", state |-> NoState, held |-> None,
     selected_idx |-> 0, inState |-> None, resolverCalls |-> 0, fetcherCalls |-> 0,
     resolverResult |-> None, fetchArgs |-> None, fetchResult |-> None, exc |-> "",
     queryArg |-> <<>>]

\* the coroutines that call get_or_compute
Tasks == {"t1", "t2"}

\* a coroutine that is not in get_or_compute
IdleTask == [pc |-> "idle", key |-> <<>>, ttl |-> None, value |-> None]

\* the keys the callers use
CacheKeys == {<<"k", "1">>, <<"k", "2">>}

Init ==
    /\ pc = "idle"
    /\ op = "none"
    /\ state = NoState
    /\ held = None
    /\ selected_idx = 0
    /\ inState = None
    /\ resolverCalls = 0
    /\ fetcherCalls = 0
    /\ resolverResult = None
    /\ fetchArgs = None
    /\ fetchResult = None
    /\ exc = ""
    /\ prev = None
    /\ queryArg = <<>>
    /\ searchRows = None
    /\ other = IdleCall
    /\ metricRows = None
    /\ request = None
    /\ workflow_state = None
    /\ waiting_for_selection = FALSE
    /\ last_error = None
    /\ pending_retry = None
    /\ selected = ""
    /\ fetched = 0
    /\ cache = <<>>
    /\ stats = [hits |-> 0, misses |-> 0, evictions |-> 0]
    /\ now = 0
    /\ tasks = [t \in Tasks |-> IdleTask]
    /\ computed = [k \in CacheKeys |-> 0]
    /\ lastCall = None

\* process_query(query): build the initial state and invoke the graph
ProcessQuery(query) ==
    /\ pc = "idle"
    /\ pc' = "parse_query"
    /\ op' = "start"
    /\ state' = initial_state(query)
    /\ queryArg' = query
    /\ UNCHANGED <<frontVars, cacheVars, request, metricRows, other, searchRows, prev, held, selected_idx, inState, resolverCalls, fetcherCalls,
                   resolverResult, fetchArgs, fetchResult, exc>>

ParseQuery ==
    /\ pc = "parse_query"
    /\ state' = parse_query(state)
    /\ pc' = "search_location"
    /\ UNCHANGED <<frontVars, cacheVars, request, metricRows, other, searchRows, queryArg, prev, op, held, selected_idx, inState, resolverCalls, fetcherCalls,
                   resolverResult, fetchArgs, fetchResult, exc>>

\* search_location: location_agent.run returns result
SearchLocation(result) ==
    /\ pc = "search_location"
    /\ resolverCalls' = resolverCalls + 1
    /\ resolverResult' = Some(result)
    /\ state' = search_location(state, result)
    /\ pc' = "handle_disambiguation"
    /\ UNCHANGED <<frontVars, cacheVars, request, metricRows, other, searchRows, queryArg, prev, op, held, selected_idx, inState, fetcherCalls, fetchArgs,
                   fetchResult, exc>>

\* search_location: location_agent.run raises; the exception leaves the call
SearchLocationFails ==
    /\ pc = "search_location"
    /\ resolverCalls' = resolverCalls + 1
    /\ pc' = "raised"
    /\ exc' = "LocationAgentError"
    /\ UNCHANGED <<frontVars, cacheVars, request, metricRows, other, searchRows, queryArg, prev, op, state, held, selected_idx, inState, fetcherCalls,
                   resolverResult, fetchArgs, fetchResult>>

HandleDisambiguation ==
    /\ pc = "handle_disambiguation"
    /\ state' = handle_disambiguation(state)
    /\ pc' = RouteAfterDisambiguation(state')
    /\ UNCHANGED <<frontVars, cacheVars, request, metricRows, other, searchRows, queryArg, prev, op, held, selected_idx, inState, resolverCalls, fetcherCalls,
                   resolverResult, fetchArgs, fetchResult, exc>>

\* fetch_pm_data without a selected location
FetchPmDataNoSelection ==
    /\ pc = "fetch_pm_data"
    /\ ~IsSet(state.selected_location)
    /\ state' = fetch_no_selection(state)
    /\ pc' = AfterFetch(state')
    /\ UNCHANGED <<frontVars, cacheVars, request, metricRows, other, searchRows, queryArg, prev, op, held, selected_idx, inState, resolverCalls, fetcherCalls,
                   resolverResult, fetchArgs, fetchResult, exc>>

\* fetch_pm_data: pm_agent.run returns result
FetchPmData(result) ==
    /\ pc = "fetch_pm_data"
    /\ IsSet(state.selected_location)
    /\ fetcherCalls' = fetcherCalls + 1
    /\ fetchArgs' = Some(fetch_input(state))
    /\ fetchResult' = Some(result)
    /\ state' = fetch_pm_data(state, result)
    /\ pc' = AfterFetch(state')
    /\ UNCHANGED <<frontVars, cacheVars, request, metricRows, other, searchRows, queryArg, prev, op, held, selected_idx, inState, resolverCalls, resolverResult, exc>>

\* a fetch_pm_data that catches what pm_agent.run raises and reports it in
\* the state
FetchPmDataFailsCaught ==
    /\ pc = "fetch_pm_data"
    /\ IsSet(state.selected_location)
    /\ fetcherCalls' = fetcherCalls + 1
    /\ fetchArgs' = Some(fetch_input(state))
    /\ state' = [state EXCEPT !.error = Some("PMAgentError"), !.pm_data = None]
    /\ pc' = "format_response"
    /\ UNCHANGED <<frontVars, cacheVars, request, metricRows, other, searchRows, queryArg, prev, op, held, selected_idx, inState,
                   resolverCalls, resolverResult, fetchResult, exc>>

\* fetch_pm_data: pm_agent.run raises
FetchPmDataFails ==
    /\ pc = "fetch_pm_data"
    /\ IsSet(state.selected_location)
    /\ fetcherCalls' = fetcherCalls + 1
    /\ fetchArgs' = Some(fetch_input(state))
    /\ pc' = "raised"
    /\ exc' = "PMAgentError"
    /\ UNCHANGED <<frontVars, cacheVars, request, metricRows, other, searchRows, queryArg, prev, op, state, held, selected_idx, inState, resolverCalls,
                   resolverResult, fetchResult>>

FormatResponse ==
    /\ pc = "format_response"
    /\ ~FormatRaises(state)
    /\ state' = format_response(state)
    /\ pc' = "returned"
    /\ UNCHANGED <<frontVars, cacheVars, request, metricRows, other, searchRows, queryArg, prev, op, held, selected_idx, inState, resolverCalls, fetcherCalls,
                   resolverResult, fetchArgs, fetchResult, exc>>

\* format_response: f"{pm_value:.1f}" with pm_value None
FormatResponseFails ==
    /\ pc = "format_response"
    /\ FormatRaises(state)
    /\ pc' = "raised"
    /\ exc' = "TypeError"
    /\ UNCHANGED <<frontVars, cacheVars, request, metricRows, other, searchRows, queryArg, prev, op, state, held, selected_idx, inState, resolverCalls, fetcherCalls,
                   resolverResult, fetchArgs, fetchResult>>

\* continue_with_selection(state, selected_idx) on the object the caller holds:
\* the two assignments write into that object, then the nodes run on it
ContinueWithSelection(idx) ==
    /\ pc = "idle"
    /\ IsSet(held)
    /\ op' = "resume"
    /\ selected_idx' = idx
    /\ inState' = held
    /\ IF IndexInRange(The(held).locations, idx)
       THEN /\ held' = Some(select_location(The(held), idx))
            /\ state' = select_location(The(held), idx)
            /\ pc' = ResumeEntry
            /\ exc' = exc
       ELSE /\ held' = held
            /\ state' = The(held)
            /\ pc' = "raised"
            /\ exc' = "IndexError"
    /\ UNCHANGED <<frontVars, cacheVars, request, metricRows, other, searchRows, queryArg, prev, resolverCalls, fetcherCalls, resolverResult, fetchArgs, fetchResult>>

\* the call is over.  The caller may keep the state process_query returned
\* as the object it holds (ui/app.py keeps it in its session, the client of
\* POST /query gets it in the reply); what continue_with_selection returns is
\* only rendered (POST /query/select does not send it back), so the caller
\* still holds the object it passed in
Deliver ==
    /\ pc \in {"returned", "raised"}
    /\ held' \in (IF pc = "returned" /\ op = "start" THEN {held, Some(state)} ELSE {held})
    /\ pc' = "idle"
    /\ op' = "none"
    /\ state' = NoState
    /\ selected_idx' = 0
    /\ inState' = None
    /\ resolverCalls' = 0
    /\ fetcherCalls' = 0
    /\ resolverResult' = None
    /\ fetchArgs' = None
    /\ fetchResult' = None
    /\ exc' = ""
    /\ queryArg' = <<>>
    /\ searchRows' = None
    /\ UNCHANGED <<frontVars, cacheVars, other>>
    /\ metricRows' = None
    /\ request' = None
    /\ prev' = None

Next ==
    \/ \E query \in Queries : ProcessQuery(query)
    \/ ParseQuery
    \/ \E result \in ResolverResults : SearchLocation(result)
    \/ SearchLocationFails
    \/ HandleDisambiguation
    \/ FetchPmDataNoSelection
    \/ \E result \in FetchResults : FetchPmData(result)
    \/ FetchPmDataFails
    \/ FormatResponse
    \/ FormatResponseFails
    \/ \E idx \in Indices : ContinueWithSelection(idx)
    \/ Deliver

Spec == Init /\ [][Next]_vars

TypeOK ==
    /\ pc \in {"idle", "parse_query", "search_location", "handle_disambiguation",
               "fetch_pm_data", "awaiting_pm_agent", "format_response", "returned",
               "raised"}
    /\ op \in {"none", "start", "resume"}
    /\ resolverCalls \in 0..1
    /\ fetcherCalls \in 0..1

(***************************************************************************)
(* parse_query over every query made of at most MaxTokens of the pieces     *)
(* " ", "in", "at", "for", "X", "IN".                                       *)
(***************************************************************************)
MaxTokens == 5

Tokens == {<<" ">>, <<"i", "n">>, <<"a", "t">>, <<"f", "o", "r">>, <<"X">>, <<"I", "N">>}

RECURSIVE Flatten(_)
Flatten(ts) == IF ts = <<>> THEN <<>> ELSE Head(ts) \o Flatten(Tail(ts))

ParseQueries == {Flatten(ts) : ts \in SeqsUpTo(Tokens, MaxTokens)}

NextParse ==
    \/ pc = "idle" /\ \E query \in ParseQueries : ProcessQuery(query)
    \/ ParseQuery

SpecParse == Init /\ [][NextParse]_vars

(***************************************************************************)
(* One query with one candidate, and every reading from -5.0 to MaxReading   *)
(* tenths of a microgram.                                                    *)
(***************************************************************************)
MaxReading == 2600

Readings == (0 - 50)..MaxReading

ReadingResults ==
    {[success |-> TRUE, pm25_value |-> Some(v), timestamp |-> None,
      station_count |-> 0, error |-> None] : v \in Readings}

SingleCandidate == [locations |-> Some(<<LocA>>), needs_disambiguation |-> Some(FALSE)]

NextCategory ==
    \/ \E query \in Queries : ProcessQuery(query)
    \/ ParseQuery
    \/ SearchLocation(SingleCandidate)
    \/ HandleDisambiguation
    \/ \E result \in ReadingResults : FetchPmData(result)
    \/ FormatResponse

SpecCategory == Init /\ [][NextCategory]_vars

(***************************************************************************)
(* Repeated continue_with_selection calls on one paused state, with a        *)
(* pm_agent that answers the same input the same way.                        *)
(***************************************************************************)
AmbiguousResults ==
    {r \in ResolverResults :
        /\ IsSet(r.locations)
        /\ Len(The(r.locations)) >= 2
        /\ r.needs_disambiguation = Some(TRUE)}

\* the pm_agent call of the last continue_with_selection had the input the
\* call in flight is about to give
SameFetchAsBefore ==
    /\ IsSet(prev)
    /\ IsSet(state.selected_location)
    /\ The(prev).fetchArgs = Some(fetch_input(state))

\* pm_agent.run returns what it returned for this input before
FetchPmDataAgain(result) ==
    /\ SameFetchAsBefore => The(prev).fetchResult = Some(result)
    /\ FetchPmData(result)

\* pm_agent.run raises, as it did for this input before
FetchPmDataFailsAgain ==
    /\ SameFetchAsBefore => The(prev).exc = "PMAgentError"
    /\ FetchPmDataFails

\* process_query returned a paused state: the caller keeps it
KeepPaused ==
    /\ pc = "returned"
    /\ op = "start"
    /\ state.waiting_for_user
    /\ held' = Some(state)
    /\ prev' = None
    /\ pc' = "idle"
    /\ op' = "none"
    /\ state' = NoState
    /\ UNCHANGED <<selected_idx, inState>>
    /\ resolverCalls' = 0
    /\ fetcherCalls' = 0
    /\ resolverResult' = None
    /\ fetchArgs' = None
    /\ fetchResult' = None
    /\ exc' = ""
    /\ queryArg' = <<>>
    /\ searchRows' = None
    /\ UNCHANGED <<frontVars, cacheVars, other>>
    /\ metricRows' = None
    /\ request' = None

\* continue_with_selection is over: the caller still holds the object it
\* passed in and may call again
EndSelection ==
    /\ pc \in {"returned", "raised"}
    /\ op = "resume"
    /\ prev' = Some([selected_idx |-> selected_idx, outcome |-> pc, exc |-> exc,
                     fetchArgs |-> fetchArgs, fetchResult |-> fetchResult,
                     response |-> state.response,
                     selected_location |-> state.selected_location])
    /\ pc' = "idle"
    /\ op' = "none"
    /\ state' = NoState
    /\ selected_idx' = 0
    /\ inState' = None
    /\ resolverCalls' = 0
    /\ fetcherCalls' = 0
    /\ resolverResult' = None
    /\ fetchArgs' = None
    /\ fetchResult' = None
    /\ exc' = ""
    /\ queryArg' = <<>>
    /\ searchRows' = None
    /\ UNCHANGED <<frontVars, cacheVars, other>>
    /\ metricRows' = None
    /\ request' = None
    /\ UNCHANGED held

NextTwice ==
    \/ pc = "idle" /\ held = None /\ \E query \in Queries : ProcessQuery(query)
    \/ ParseQuery
    \/ \E result \in AmbiguousResults : SearchLocation(result)
    \/ HandleDisambiguation
    \/ KeepPaused
    \/ \E idx \in Indices : ContinueWithSelection(idx)
    \/ \E result \in FetchResults : FetchPmDataAgain(result)
    \/ FetchPmDataFailsAgain
    \/ FormatResponse
    \/ FormatResponseFails
    \/ EndSelection

SpecTwice == Init /\ [][NextTwice]_vars

(***************************************************************************)
(* LocationResolverAgent.run on what the location search gives it.           *)
(* A location of the search is a record with code, level, name, state_name   *)
(* and district_name, "" for a key that is missing or empty.  The locations  *)
(* column of the row is None (NULL), a list, or the JSON text of a list.     *)
(***************************************************************************)
DbLocA == [code |-> "ARARIA_D", level |-> "district", name |-> "Araria",
           state_name |-> "Bihar", district_name |-> "Araria"]
DbLocB == [code |-> "ARARIA_SD", level |-> "sub_district", name |-> "Araria",
           state_name |-> "Bihar", district_name |-> "Araria"]
DbLocC == [code |-> "ARARIA_W1", level |-> "ward", name |-> "Ward 1",
           state_name |-> "", district_name |-> "Araria"]
DbLocations == {DbLocA, DbLocB, DbLocC}

LocationsColumn ==
    {None} \cup {Some([json |-> j, items |-> l]) :
                    j \in BOOLEAN, l \in SeqsUpTo(DbLocations, MaxLocations)}

\* what db.execute_query returns: no row, or one row
SearchRows == {<<>>} \cup {<<[locations |-> v]>> : v \in LocationsColumn}

\* a test that takes only None for falsy
FalsyColumnNoneOnly(v) == ~IsSet(v)

\* not result[0]['locations']: None and the empty list are falsy, the JSON
\* text of a list never is
FalsyColumn(v) == ~IsSet(v) \/ (~The(v).json /\ The(v).items = <<>>)

LevelDisplay(level) ==
    CASE level = "district" -> "[pin] District"
      [] level = "district_hq" -> "[building] City (District HQ)"
      [] level = "sub_district" -> "[pushpin] Sub-district"
      [] level = "ward" -> "[house] Ward"
      [] OTHER -> "[pin] Location"

\* _format_display_name: the parts joined by " | "
FormatDisplayName(location) ==
    LevelDisplay(location.level) \o ": " \o location.name
    \o (IF location.district_name # "" /\ location.level # "district"
        THEN " | District: " \o location.district_name ELSE "")
    \o (IF location.state_name # "" THEN " | State: " \o location.state_name ELSE "")

\* an entry with the name where the code belongs
FormatLocationNameAsCode(loc) ==
    [code |-> loc.name, level |-> loc.level, name |-> loc.name,
     display_name |-> FormatDisplayName(loc)]

\* one entry of formatted_locations
FormatLocation(loc) ==
    [code |-> loc.code, level |-> loc.level, name |-> loc.name,
     display_name |-> FormatDisplayName(loc)]

\* a run that asks for a choice as soon as there is one location
LocationResolverRunFlagsOne(rows) ==
    IF rows = <<>> \/ FalsyColumn(rows[1].locations)
    THEN [success |-> FALSE, locations |-> Some(<<>>), count |-> None,
          needs_disambiguation |-> None, error |-> Some("No locations found")]
    ELSE LET locations == The(rows[1].locations).items
             formatted_locations ==
                 [i \in 1..Len(locations) |-> FormatLocation(locations[i])]
         IN  [success |-> TRUE, locations |-> Some(formatted_locations),
              count |-> Some(Len(formatted_locations)),
              needs_disambiguation |-> Some(Len(formatted_locations) >= 1),
              error |-> None]

\* LocationResolverAgent.run, given the rows the search returned: the dict
\* it returns, None for a key the dict does not have
LocationResolverRun(rows) ==
    IF rows = <<>> \/ FalsyColumn(rows[1].locations)
    THEN [success |-> FALSE, locations |-> Some(<<>>), count |-> None,
          needs_disambiguation |-> None, error |-> Some("No locations found")]
    ELSE LET locations == The(rows[1].locations).items
             formatted_locations ==
                 [i \in 1..Len(locations) |-> FormatLocation(locations[i])]
         IN  [success |-> TRUE, locations |-> Some(formatted_locations),
              count |-> Some(Len(formatted_locations)),
              needs_disambiguation |-> Some(Len(formatted_locations) > 1),
              error |-> None]

\* search_location with the location agent of the repository: the search
\* returns rows and the agent's answer goes into the state
ResolveLocation(rows) ==
    /\ pc = "search_location"
    /\ resolverCalls' = resolverCalls + 1
    /\ searchRows' = Some(rows)
    /\ resolverResult' = Some(LocationResolverRun(rows))
    /\ state' = search_location(state, LocationResolverRun(rows))
    /\ pc' = "handle_disambiguation"
    /\ UNCHANGED <<frontVars, cacheVars, request, metricRows, other, queryArg, prev, op, held, selected_idx, inState, fetcherCalls,
                   fetchArgs, fetchResult, exc>>

\* the queries of Queries and the empty query
ResolverQueries == Queries \cup {<<>>}

NextResolver ==
    \/ \E query \in ResolverQueries : ProcessQuery(query)
    \/ ParseQuery
    \/ \E rows \in SearchRows : ResolveLocation(rows)
    \/ HandleDisambiguation
    \/ FetchPmDataNoSelection
    \/ \E result \in FetchResults : FetchPmData(result)
    \/ FormatResponse
    \/ FormatResponseFails

SpecResolver == Init /\ [][NextResolver]_vars

(***************************************************************************)
(* Two callers on one workflow instance.  The variables pc .. queryArg are   *)
(* the caller whose call is running, other is the caller whose call waits at *)
(* an await; Switch hands the event loop from one to the other.              *)
(***************************************************************************)
PairResolverResults ==
    {[locations |-> Some(<<LocA>>), needs_disambiguation |-> Some(FALSE)],
     [locations |-> Some(<<LocA, LocB>>), needs_disambiguation |-> Some(TRUE)]}

PairFetchResults ==
    {[success |-> TRUE, pm25_value |-> Some(450), timestamp |-> None,
      station_count |-> 0, error |-> None],
     [success |-> FALSE, pm25_value |-> None, timestamp |-> None,
      station_count |-> 0, error |-> Some(NoDataMsg)]}

RunningCall ==
    [pc |-> pc, op |-> op, state |-> state, held |-> held,
     selected_idx |-> selected_idx, inState |-> inState,
     resolverCalls |-> resolverCalls, fetcherCalls |-> fetcherCalls,
     resolverResult |-> resolverResult, fetchArgs |-> fetchArgs,
     fetchResult |-> fetchResult, exc |-> exc, queryArg |-> queryArg]

\* the event loop runs the other caller
Switch ==
    /\ other' = RunningCall
    /\ pc' = other.pc
    /\ op' = other.op
    /\ state' = other.state
    /\ held' = other.held
    /\ selected_idx' = other.selected_idx
    /\ inState' = other.inState
    /\ resolverCalls' = other.resolverCalls
    /\ fetcherCalls' = other.fetcherCalls
    /\ resolverResult' = other.resolverResult
    /\ fetchArgs' = other.fetchArgs
    /\ fetchResult' = other.fetchResult
    /\ exc' = other.exc
    /\ queryArg' = other.queryArg
    /\ UNCHANGED <<frontVars, cacheVars, prev, searchRows, metricRows, request>>

NextPair ==
    \/ \E query \in Queries : ProcessQuery(query)
    \/ ParseQuery
    \/ \E result \in PairResolverResults : SearchLocation(result)
    \/ HandleDisambiguation
    \/ \E result \in PairFetchResults : FetchPmData(result)
    \/ FormatResponse
    \/ \E idx \in 0..(MaxLocations - 1) : ContinueWithSelection(idx)
    \/ Deliver
    \/ Switch

SpecPair == Init /\ [][NextPair]_vars

(***************************************************************************)
(* The two HTTP operations of api/main.py.  POST /query runs process_query   *)
(* and sends the state back; the client holds what it received (held).       *)
(* POST /query/select gets a state and an index in its body, checks them and *)
(* runs continue_with_selection on the dict it decoded, so the client's copy *)
(* stays as it is.                                                           *)
(***************************************************************************)
\* post_query_selection with body {"state": held, "selected_index": idx}
PostQuerySelection(idx) ==
    /\ pc = "idle"
    /\ IsSet(held)
    /\ op' = "resume"
    /\ selected_idx' = idx
    /\ inState' = held
    /\ IF The(held).locations = <<>> \/ idx < 0 \/ idx >= Len(The(held).locations)
       THEN /\ state' = The(held)
            /\ pc' = "raised"
            /\ exc' = "HTTP400"
       ELSE /\ state' = select_location(The(held), idx)
            /\ pc' = ResumeEntry
            /\ exc' = exc
    /\ UNCHANGED <<frontVars, cacheVars, request, metricRows, other, searchRows, queryArg, prev, held, resolverCalls, fetcherCalls,
                   resolverResult, fetchArgs, fetchResult>>

\* the reply of the operation that has ended: status and data.formatted_response
HttpReply ==
    IF pc = "returned" THEN [status |-> 200, formatted_response |-> state.response]
    ELSE IF exc = "HTTP400" THEN [status |-> 400, formatted_response |-> <<>>]
    ELSE [status |-> 500, formatted_response |-> <<>>]

NextHttp ==
    \/ \E query \in Queries : ProcessQuery(query)
    \/ ParseQuery
    \/ \E result \in ResolverResults : SearchLocation(result)
    \/ SearchLocationFails
    \/ HandleDisambiguation
    \/ FetchPmDataNoSelection
    \/ \E result \in FetchResults : FetchPmData(result)
    \/ FetchPmDataFails
    \/ FormatResponse
    \/ FormatResponseFails
    \/ \E idx \in Indices : PostQuerySelection(idx)
    \/ Deliver

SpecHttp == Init /\ [][NextHttp]_vars

(***************************************************************************)
(* PMDataAgent.run on what gis.get_current_pm25 gives it: no row, or a row   *)
(* with pm25_value, timestamp and station_count (None for NULL, station      *)
(* count 0 for none).                                                        *)
(***************************************************************************)
StoreRow ==
    [pm25_value : {None, Some(300), Some(1452)},
     timestamp : {None, Some("2025-09-22T10:00:00Z")},
     station_count : {0, 3}]

MetricRows == {<<>>} \cup {<<row>> : row \in StoreRow}

\* a run that reports no rows without a message
PMDataRunNoMessage(rows) ==
    IF rows = <<>>
    THEN [success |-> FALSE, pm25_value |-> None, timestamp |-> None,
          station_count |-> 0, error |-> None]
    ELSE [success |-> TRUE, pm25_value |-> rows[1].pm25_value,
          timestamp |-> rows[1].timestamp, station_count |-> rows[1].station_count,
          error |-> None]

\* PMDataAgent.run, given the rows the query returned
PMDataRun(rows) ==
    IF rows = <<>>
    THEN [success |-> FALSE, pm25_value |-> None, timestamp |-> None,
          station_count |-> 0, error |-> Some(NoDataMsg)]
    ELSE [success |-> TRUE, pm25_value |-> rows[1].pm25_value,
          timestamp |-> rows[1].timestamp, station_count |-> rows[1].station_count,
          error |-> None]

\* fetch_pm_data with the PM agent of the repository
FetchFromStore(rows) ==
    /\ pc = "fetch_pm_data"
    /\ IsSet(state.selected_location)
    /\ fetcherCalls' = fetcherCalls + 1
    /\ fetchArgs' = Some(fetch_input(state))
    /\ metricRows' = Some(rows)
    /\ fetchResult' = Some(PMDataRun(rows))
    /\ state' = fetch_pm_data(state, PMDataRun(rows))
    /\ pc' = AfterFetch(state')
    /\ UNCHANGED <<frontVars, cacheVars, request, other, searchRows, queryArg, prev, op, held, selected_idx, inState,
                   resolverCalls, resolverResult, exc>>

NextMetric ==
    \/ \E query \in Queries : ProcessQuery(query)
    \/ ParseQuery
    \/ \E result \in PairResolverResults : SearchLocation(result)
    \/ HandleDisambiguation
    \/ \E rows \in MetricRows : FetchFromStore(rows)
    \/ FormatResponse
    \/ FormatResponseFails
    \/ \E idx \in Indices : ContinueWithSelection(idx)
    \/ Deliver

SpecMetric == Init /\ [][NextMetric]_vars

(***************************************************************************)
(* POST /query/select with any body.  The body's state is absent (or null),  *)
(* a JSON value that is no object, or the object the client holds, whose     *)
(* locations is a list, absent, or a value that is no list.  selected_index  *)
(* is absent (or null), a text int() does not take, or a number, given in    *)
(* tenths (17 is 1.7).                                                       *)
(***************************************************************************)
IndexTenths == {10 * i : i \in Indices} \cup {0 - 5, 5, 17}

SelectionBodies ==
    [state_kind : {"absent", "text", "object"},
     locations_kind : {"list", "absent", "text"},
     index_kind : {"absent", "text", "number"},
     tenths : IndexTenths]

\* int(selected_index) of a number: the fraction is cut off
IntOf(tenths) == IF tenths >= 0 THEN tenths \div 10 ELSE 0 - ((0 - tenths) \div 10)

\* a gate that lets the index len(locations) through
SelectionRejectedOffByOne(body, locations) ==
    \/ body.state_kind # "object"
    \/ body.index_kind = "absent"
    \/ body.locations_kind # "list"
    \/ locations = <<>>
    \/ body.index_kind = "text"
    \/ IntOf(body.tenths) < 0
    \/ IntOf(body.tenths) > Len(locations)

\* the checks of post_query_selection that end in HTTP 400; locations is
\* the list of the body's state when it has one
SelectionRejected(body, locations) ==
    \/ body.state_kind # "object"
    \/ body.index_kind = "absent"
    \/ body.locations_kind # "list"
    \/ locations = <<>>
    \/ body.index_kind = "text"
    \/ IntOf(body.tenths) < 0
    \/ IntOf(body.tenths) >= Len(locations)

\* post_query_selection with the given body
PostSelectionBody(body) ==
    /\ pc = "idle"
    /\ IsSet(held)
    /\ op' = "resume"
    /\ request' = Some(body)
    /\ inState' = held
    /\ IF SelectionRejected(body, The(held).locations)
       THEN /\ state' = The(held)
            /\ selected_idx' = 0
            /\ pc' = "raised"
            /\ exc' = "HTTP400"
       ELSE /\ selected_idx' = IntOf(body.tenths)
            /\ IF IndexInRange(The(held).locations, IntOf(body.tenths))
               THEN /\ state' = select_location(The(held), IntOf(body.tenths))
                    /\ pc' = ResumeEntry
                    /\ exc' = exc
               ELSE /\ state' = The(held)
                    /\ pc' = "raised"
                    /\ exc' = "IndexError"
    /\ UNCHANGED <<frontVars, cacheVars, metricRows, other, searchRows, queryArg, prev, held, resolverCalls,
                   fetcherCalls, resolverResult, fetchArgs, fetchResult>>

GateResolverResults ==
    PairResolverResults
    \cup {[locations |-> Some(<<>>), needs_disambiguation |-> Some(FALSE)]}

NextGate ==
    \/ \E query \in Queries : ProcessQuery(query)
    \/ ParseQuery
    \/ \E result \in GateResolverResults : SearchLocation(result)
    \/ HandleDisambiguation
    \/ FetchPmDataNoSelection
    \/ \E result \in PairFetchResults : FetchPmData(result)
    \/ FormatResponse
    \/ pc = "idle" /\ \E body \in SelectionBodies : PostSelectionBody(body)
    \/ Deliver

SpecGate == Init /\ [][NextGate]_vars

(***************************************************************************)
(* Two continue_with_selection calls on one state object (held).  Until      *)
(* fetch_pm_data returns its new dict, the state of a call is that object:   *)
(* the call writes into it, reads the location from it and calls the PM      *)
(* agent in one step, waits for the agent, and builds {**state, ...} from    *)
(* the object as it is when the agent has answered.                          *)
(***************************************************************************)
\* what PMDataAgent.run answers for an input: a reading with the location it
\* was asked for, or no data
AnswersFor(input) ==
    {[success |-> TRUE, pm25_value |-> Some(450), timestamp |-> None,
      station_count |-> 0, error |-> None, location_code |-> input.location_code],
     [success |-> FALSE, pm25_value |-> None, timestamp |-> None,
      station_count |-> 0, error |-> Some(NoDataMsg),
      location_code |-> input.location_code]}

\* continue_with_selection up to the await of pm_agent.run
ContinueShared(idx) ==
    /\ pc = "idle"
    /\ IsSet(held)
    /\ op' = "resume"
    /\ selected_idx' = idx
    /\ inState' = held
    /\ state' = The(held)
    /\ IF IndexInRange(The(held).locations, idx)
       THEN /\ held' = Some(select_location(The(held), idx))
            /\ fetcherCalls' = fetcherCalls + 1
            /\ fetchArgs' = Some(fetch_input(select_location(The(held), idx)))
            /\ pc' = "awaiting_pm_agent"
            /\ exc' = exc
       ELSE /\ held' = held
            /\ fetcherCalls' = fetcherCalls
            /\ fetchArgs' = fetchArgs
            /\ pc' = "raised"
            /\ exc' = "IndexError"
    /\ UNCHANGED <<frontVars, cacheVars, request, metricRows, other, searchRows, queryArg, prev, resolverCalls,
                   resolverResult, fetchResult>>

\* pm_agent.run has answered: fetch_pm_data returns {**state, ...} of the
\* object as it is now
FetchReturnShared ==
    /\ pc = "awaiting_pm_agent"
    /\ \E result \in AnswersFor(The(fetchArgs)) :
          /\ fetchResult' = Some(result)
          /\ state' = fetch_pm_data(The(held), result)
    /\ pc' = AfterFetch(state')
    /\ UNCHANGED <<frontVars, cacheVars, request, metricRows, other, searchRows, queryArg, prev, op, held,
                   selected_idx, inState, resolverCalls, fetcherCalls, resolverResult,
                   fetchArgs, exc>>

\* the event loop runs the other call; the state object is the same for both
SwitchShared ==
    /\ IsSet(held)
    /\ other' = RunningCall
    /\ pc' = other.pc
    /\ op' = other.op
    /\ state' = other.state
    /\ selected_idx' = other.selected_idx
    /\ inState' = other.inState
    /\ resolverCalls' = other.resolverCalls
    /\ fetcherCalls' = other.fetcherCalls
    /\ resolverResult' = other.resolverResult
    /\ fetchArgs' = other.fetchArgs
    /\ fetchResult' = other.fetchResult
    /\ exc' = other.exc
    /\ queryArg' = other.queryArg
    /\ UNCHANGED <<frontVars, cacheVars, held, prev, searchRows, metricRows, request>>

\* a continue_with_selection is over; the object stays with the front end
EndShared ==
    /\ op = "resume"
    /\ Deliver

NextOverlap ==
    \/ pc = "idle" /\ held = None /\ \E query \in Queries : ProcessQuery(query)
    \/ ParseQuery
    \/ \E result \in AmbiguousResults : SearchLocation(result)
    \/ HandleDisambiguation
    \/ KeepPaused
    \/ \E idx \in 0..MaxLocations : ContinueShared(idx)
    \/ FetchReturnShared
    \/ FormatResponse
    \/ SwitchShared
    \/ EndShared

SpecOverlap == Init /\ [][NextOverlap]_vars

(***************************************************************************)
(* The chat session of ui/app.py.  held is st.session_state.current_state;   *)
(* between two runs of the script no call is in flight (pc = "idle").         *)
(***************************************************************************)
\* the script run is over (st.rerun, or an exception Streamlit reports): what
\* the call left behind is dropped, the session stays
RunOver ==
    /\ pc' = "idle"
    /\ op' = "none"
    /\ state' = NoState
    /\ selected_idx' = 0
    /\ inState' = None
    /\ resolverCalls' = 0
    /\ fetcherCalls' = 0
    /\ resolverResult' = None
    /\ fetchArgs' = None
    /\ fetchResult' = None
    /\ exc' = ""
    /\ queryArg' = <<>>
    /\ searchRows' = None
    /\ metricRows' = None
    /\ request' = None
    /\ prev' = None
    /\ UNCHANGED <<frontVars, cacheVars, other>>

\* an example of the sidebar is clicked: its buttons are never disabled
SidebarQuery(query) ==
    /\ pc = "idle"
    /\ ProcessQuery(query)

\* a query is typed: the chat input is disabled while current_state is set
ChatInput(query) ==
    /\ pc = "idle"
    /\ held = None
    /\ ProcessQuery(query)

\* process_query returned a paused state: it becomes current_state
AskSelection ==
    /\ pc = "returned"
    /\ op = "start"
    /\ state.waiting_for_user
    /\ held' = Some(state)
    /\ RunOver

\* process_query returned an answer: it is appended to the messages.  The
\* sidebar leaves current_state as it is; the chat input sets it to None,
\* which it was when the query was typed
ShowAnswer ==
    /\ pc = "returned"
    /\ op = "start"
    /\ ~state.waiting_for_user
    /\ held' = held
    /\ RunOver

\* a selection button is clicked: the buttons are there when current_state is
\* waiting_for_user and has locations, one button for each location
ClickOption(idx) ==
    /\ IsSet(held)
    /\ The(held).waiting_for_user
    /\ The(held).locations # <<>>
    /\ idx < Len(The(held).locations)
    /\ ContinueWithSelection(idx)

\* continue_with_selection returned: the response is appended and
\* current_state cleared
ShowSelected ==
    /\ pc = "returned"
    /\ op = "resume"
    /\ held' = None
    /\ RunOver

\* the call raised: the script run ends there, before any line after the call
ScriptFails ==
    /\ pc = "raised"
    /\ held' = held
    /\ RunOver

NextChat ==
    \/ \E query \in Queries : SidebarQuery(query)
    \/ \E query \in Queries : ChatInput(query)
    \/ ParseQuery
    \/ \E result \in GateResolverResults : SearchLocation(result)
    \/ SearchLocationFails
    \/ HandleDisambiguation
    \/ FetchPmDataNoSelection
    \/ \E result \in FetchResults : FetchPmData(result)
    \/ FetchPmDataFails
    \/ FormatResponse
    \/ FormatResponseFails
    \/ AskSelection
    \/ ShowAnswer
    \/ \E idx \in 0..(MaxLocations - 1) : ClickOption(idx)
    \/ ShowSelected
    \/ ScriptFails

SpecChat == Init /\ [][NextChat]_vars

(***************************************************************************)
(* The chat session of ui/streamlit_pm_query.py.  The backend is behind      *)
(* HTTP: a request is answered, or fails with requests.RequestException      *)
(* (HTTPError for a non-2xx reply).                                          *)
(***************************************************************************)
MaxFetches == 3

\* the state POST /query returns for an ambiguous query
PausedFor(query) ==
    handle_disambiguation(
        search_location(parse_query(initial_state(query)),
                        [locations |-> Some(<<LocA, LocB>>),
                         needs_disambiguation |-> Some(TRUE)]))

\* what query_backend gives: a paused state, an answer, or an exception
QueryOutcomes == {"paused", "answer", "failed"}

\* what select_backend gives: the reply, or an exception
SelectOutcomes == {"ok", "http_error", "request_error"}

QueryError(user_text) ==
    [type |-> "query", user_text |-> user_text, state |-> None, selected_index |-> 0]

SelectError(st, idx) ==
    [type |-> "select", user_text |-> <<>>, state |-> st, selected_index |-> idx]

\* a query is typed into the chat input
SubmitQuery(user_text, outcome) ==
    /\ pending_retry = None
    /\ selected' = ""
    /\ CASE outcome = "paused" ->
              /\ workflow_state' = Some(PausedFor(user_text))
              /\ waiting_for_selection' = TRUE
              /\ fetched' = 0
              /\ UNCHANGED last_error
         [] outcome = "answer" ->
              UNCHANGED <<workflow_state, waiting_for_selection, fetched, last_error>>
         [] OTHER ->
              /\ last_error' = Some(QueryError(user_text))
              /\ UNCHANGED <<workflow_state, waiting_for_selection, fetched>>
    /\ UNCHANGED <<pending_retry, cacheVars, callVars>>

\* one of the options is clicked
ClickSelect(idx, outcome) ==
    /\ pending_retry = None
    /\ waiting_for_selection
    /\ IsSet(workflow_state)
    /\ idx < Len(The(workflow_state).locations)
    /\ fetched < MaxFetches
    /\ IF outcome = "ok"
       THEN /\ waiting_for_selection' = FALSE
            /\ workflow_state' = None
            /\ last_error' = None
            /\ selected' = "click"
            /\ fetched' = fetched + 1
       ELSE /\ last_error' = Some(SelectError(workflow_state, idx))
            /\ selected' = ""
            /\ UNCHANGED <<waiting_for_selection, workflow_state, fetched>>
    /\ UNCHANGED <<pending_retry, cacheVars, callVars>>

\* Retry is clicked under the last error
ClickRetry ==
    /\ pending_retry = None
    /\ IsSet(last_error)
    /\ pending_retry' = last_error
    /\ selected' = ""
    /\ UNCHANGED <<workflow_state, waiting_for_selection, last_error, fetched, cacheVars,
                   callVars>>

\* the pending retry is performed: the failed query is sent again
RetryQuery(outcome) ==
    /\ IsSet(pending_retry)
    /\ The(pending_retry).type = "query"
    /\ pending_retry' = None
    /\ selected' = ""
    /\ CASE outcome = "paused" ->
              /\ workflow_state' = Some(PausedFor(The(pending_retry).user_text))
              /\ waiting_for_selection' = TRUE
              /\ fetched' = 0
              /\ UNCHANGED last_error
         [] outcome = "answer" ->
              UNCHANGED <<workflow_state, waiting_for_selection, fetched, last_error>>
         [] OTHER ->
              /\ last_error' = Some(QueryError(The(pending_retry).user_text))
              /\ UNCHANGED <<workflow_state, waiting_for_selection, fetched>>
    /\ UNCHANGED <<cacheVars, callVars>>

\* the pending retry is performed: the failed selection is sent again
RetrySelect(outcome) ==
    /\ IsSet(pending_retry)
    /\ The(pending_retry).type = "select"
    /\ IsSet(The(pending_retry).state)
    /\ fetched < MaxFetches
    /\ pending_retry' = None
    /\ IF outcome = "ok"
       THEN /\ selected' = "retry"
            /\ fetched' = IF The(pending_retry).state = workflow_state
                           THEN fetched + 1 ELSE fetched
            /\ UNCHANGED last_error
       ELSE /\ last_error' = Some(SelectError(The(pending_retry).state,
                                              The(pending_retry).selected_index))
            /\ selected' = ""
            /\ UNCHANGED fetched
    /\ UNCHANGED <<workflow_state, waiting_for_selection, cacheVars, callVars>>

NextFront ==
    \/ \E user_text \in Queries, outcome \in QueryOutcomes : SubmitQuery(user_text, outcome)
    \/ \E idx \in 0..(MaxLocations - 1), outcome \in SelectOutcomes : ClickSelect(idx, outcome)
    \/ ClickRetry
    \/ \E outcome \in QueryOutcomes : RetryQuery(outcome)
    \/ \E outcome \in SelectOutcomes : RetrySelect(outcome)

SpecFront == Init /\ [][NextFront]_vars

(***************************************************************************)
(* InMemoryCache.  get, set, invalidate_pattern and one round of             *)
(* _cleanup_expired have no await inside and run without interruption;       *)
(* get_or_compute is suspended while it awaits compute_fn.                   *)
(***************************************************************************)
MaxRequests == 2

default_ttl == 3600

\* the instants datetime.now() is read at
Times == {0, 1, 2}

\* what is cached
CacheValues == {"v1", "v2"}

\* the ttl arguments: None, 0 and one second
TtlArgs == {None, Some(0), Some(1)}

\* the patterns given to invalidate_pattern: literal text
Patterns == {<<"k">>, <<"k", "1">>, <<"x">>}

\* CacheEntry.is_expired at the instant t
is_expired(entry, t) == t > entry.created_at + entry.ttl_seconds

\* the dict without a key
Without(c, keys) == [k \in (DOMAIN c) \ keys |-> c[k]]

\* the dict with an entry put under a key
With(c, key, entry) == [k \in (DOMAIN c) \cup {key} |-> IF k = key THEN entry ELSE c[k]]

\* get that serves whatever is stored
get_any(c, st, t, key) ==
    IF key \in DOMAIN c
    THEN [cache |-> [c EXCEPT ![key].hit_count = @ + 1],
          stats |-> [st EXCEPT !.hits = @ + 1],
          result |-> Some(c[key].value)]
    ELSE [cache |-> c, stats |-> [st EXCEPT !.misses = @ + 1], result |-> None]

\* InMemoryCache.get: the cache, the stats and the returned value
get(c, st, t, key) ==
    IF key \in DOMAIN c
    THEN IF ~is_expired(c[key], t)
         THEN [cache |-> [c EXCEPT ![key].hit_count = @ + 1],
               stats |-> [st EXCEPT !.hits = @ + 1],
               result |-> Some(c[key].value)]
         ELSE [cache |-> Without(c, {key}),
               stats |-> [st EXCEPT !.evictions = @ + 1, !.misses = @ + 1],
               result |-> None]
    ELSE [cache |-> c, stats |-> [st EXCEPT !.misses = @ + 1], result |-> None]

\* ttl = ttl or self.default_ttl
TtlOf(ttl) == IF IsSet(ttl) /\ The(ttl) # 0 THEN The(ttl) ELSE default_ttl

\* InMemoryCache.set
set(c, t, key, value, ttl) ==
    With(c, key, [value |-> value, created_at |-> t, ttl_seconds |-> TtlOf(ttl),
                  hit_count |-> 0])

\* regex.match(k) for a literal pattern: k starts with it
Matches(pattern, k) ==
    /\ Len(pattern) <= Len(k)
    /\ SubSeq(k, 1, Len(pattern)) = pattern

\* what the get just made started from, and what it returned
Recorded(key, result) ==
    Some([key |-> key, cache |-> cache, stats |-> stats, result |-> result])

\* the requests made so far stay within the bound
MayRequest == stats.hits + stats.misses < MaxRequests

\* time passes
Tick ==
    /\ \E t \in Times : t > now /\ now' = t
    /\ lastCall' = None
    /\ UNCHANGED <<cache, stats, tasks, computed, frontVars, callVars>>

\* await cache.get(key)
CacheGet(key) ==
    /\ MayRequest
    /\ cache' = get(cache, stats, now, key).cache
    /\ stats' = get(cache, stats, now, key).stats
    /\ lastCall' = Recorded(key, get(cache, stats, now, key).result)
    /\ UNCHANGED <<now, tasks, computed, frontVars, callVars>>

\* await cache.set(key, value, ttl)
CacheSet(key, value, ttl) ==
    /\ cache' = set(cache, now, key, value, ttl)
    /\ lastCall' = None
    /\ UNCHANGED <<stats, now, tasks, computed, frontVars, callVars>>

\* get_or_compute with an asynchronous compute_fn, to its first await that
\* suspends: a hit returns, a miss invokes compute_fn and waits for it
GetOrCompute(t, key, ttl) ==
    /\ tasks[t].pc = "idle"
    /\ MayRequest
    /\ cache' = get(cache, stats, now, key).cache
    /\ stats' = get(cache, stats, now, key).stats
    /\ lastCall' = Recorded(key, get(cache, stats, now, key).result)
    /\ IF IsSet(get(cache, stats, now, key).result)
       THEN /\ tasks' = [tasks EXCEPT ![t] = [pc |-> "done", key |-> key, ttl |-> None,
                                              value |-> get(cache, stats, now, key).result]]
            /\ UNCHANGED computed
       ELSE /\ tasks' = [tasks EXCEPT ![t] = [pc |-> "computing", key |-> key, ttl |-> ttl,
                                              value |-> None]]
            /\ computed' = [computed EXCEPT ![key] = @ + 1]
    /\ UNCHANGED <<now, frontVars, callVars>>

\* compute_fn returns: the value is cached and returned
ComputeReturns(t, value) ==
    /\ tasks[t].pc = "computing"
    /\ cache' = set(cache, now, tasks[t].key, value, tasks[t].ttl)
    /\ tasks' = [tasks EXCEPT ![t].pc = "done", ![t].ttl = None, ![t].value = Some(value)]
    /\ lastCall' = None
    /\ UNCHANGED <<stats, now, computed, frontVars, callVars>>

\* get_or_compute with a compute_fn that is not a coroutine function: nothing
\* suspends between the get and the set
GetOrComputeSync(t, key, value, ttl) ==
    /\ tasks[t].pc = "idle"
    /\ MayRequest
    /\ stats' = get(cache, stats, now, key).stats
    /\ IF IsSet(get(cache, stats, now, key).result)
       THEN /\ cache' = get(cache, stats, now, key).cache
            /\ lastCall' = Recorded(key, get(cache, stats, now, key).result)
            /\ tasks' = [tasks EXCEPT ![t] = [pc |-> "done", key |-> key, ttl |-> None,
                                              value |-> get(cache, stats, now, key).result]]
            /\ UNCHANGED computed
       ELSE /\ cache' = set(get(cache, stats, now, key).cache, now, key, value, ttl)
            /\ lastCall' = None
            /\ tasks' = [tasks EXCEPT ![t] = [pc |-> "done", key |-> key, ttl |-> None,
                                              value |-> Some(value)]]
            /\ computed' = [computed EXCEPT ![key] = @ + 1]
    /\ UNCHANGED <<now, frontVars, callVars>>

\* the caller has its value
TaskReturns(t) ==
    /\ tasks[t].pc = "done"
    /\ tasks' = [tasks EXCEPT ![t] = IdleTask]
    /\ UNCHANGED <<cache, stats, now, computed, lastCall, frontVars, callVars>>

\* await cache.invalidate_pattern(pattern)
InvalidatePattern(pattern) ==
    /\ cache' = Without(cache, {k \in DOMAIN cache : Matches(pattern, k)})
    /\ lastCall' = None
    /\ UNCHANGED <<stats, now, tasks, computed, frontVars, callVars>>

\* one round of _cleanup_expired, after its sleep
CleanupExpired ==
    /\ cache' = Without(cache, {k \in DOMAIN cache : is_expired(cache[k], now)})
    /\ stats' = [stats EXCEPT !.evictions =
                    @ + Cardinality({k \in DOMAIN cache : is_expired(cache[k], now)})]
    /\ lastCall' = None
    /\ UNCHANGED <<now, tasks, computed, frontVars, callVars>>

\* concurrent get_or_compute calls with the default ttl, and nothing else:
\* no entry expires
NextStampede ==
    \/ \E t \in Tasks, key \in CacheKeys : GetOrCompute(t, key, None)
    \/ \E t \in Tasks, value \in CacheValues : ComputeReturns(t, value)
    \/ \E t \in Tasks : TaskReturns(t)

SpecStampede == Init /\ [][NextStampede]_vars

\* the one coroutine that calls get_or_compute when the calls do not overlap
Caller == "t1"

\* every operation of the cache, the get_or_compute calls one after the other
NextCache ==
    \/ Tick
    \/ \E key \in CacheKeys : CacheGet(key)
    \/ \E key \in CacheKeys, value \in CacheValues, ttl \in TtlArgs : CacheSet(key, value, ttl)
    \/ \E key \in CacheKeys, ttl \in TtlArgs : GetOrCompute(Caller, key, ttl)
    \/ \E value \in CacheValues : ComputeReturns(Caller, value)
    \/ \E key \in CacheKeys, value \in CacheValues, ttl \in TtlArgs :
           GetOrComputeSync(Caller, key, value, ttl)
    \/ TaskReturns(Caller)
    \/ \E pattern \in Patterns : InvalidatePattern(pattern)
    \/ CleanupExpired

SpecCache == Init /\ [][NextCache]_vars

(***************************************************************************)
(* Properties.                                                              *)
(***************************************************************************)
\* the call in flight is process_query / continue_with_selection and has
\* handed its state back to the caller
StartReturned == pc = "returned" /\ op = "start"
ResumeReturned == pc = "returned" /\ op = "resume"

\* the candidate list the location agent returned in this call
ResolvedLocations == Get(The(resolverResult).locations, <<>>)

\* the location agent returned two or more candidates and marked them ambiguous
ResolverAmbiguous ==
    /\ IsSet(resolverResult)
    /\ Len(ResolvedLocations) >= 2
    /\ The(resolverResult).needs_disambiguation = Some(TRUE)

\* the locations of the state continue_with_selection was given
InLocations == The(inState).locations

\* C1: when the location agent returns two or more candidates flagged
\* ambiguous, process_query makes no pm_agent call and returns a state with
\* waiting_for_user true, locations equal to the agent's list in the same
\* order, selected_location None, response "" and error None.
ThmC1 ==
    (op = "start" /\ ResolverAmbiguous) =>
        /\ fetcherCalls = 0
        /\ pc \in {"handle_disambiguation", "returned"}
        /\ pc = "returned" =>
            /\ state.waiting_for_user
            /\ state.locations = ResolvedLocations
            /\ state.selected_location = None
            /\ state.response = <<>>
            /\ state.error = None

WitC1 ==
    /\ StartReturned
    /\ ResolverAmbiguous
    /\ state.waiting_for_user
    /\ state.locations = <<LocB, LocA>>

\* C2: continue_with_selection never calls the location agent: at every point
\* of a resume call the number of location searches is zero and the locations
\* are those of the state that was passed in.
ThmC2 ==
    op = "resume" =>
        /\ resolverCalls = 0
        /\ pc # "search_location"
        /\ state.locations = InLocations

WitC2 ==
    /\ ResumeReturned
    /\ The(inState).waiting_for_user
    /\ fetcherCalls = 1
    /\ resolverCalls = 0

\* C3: for a state with locations and an index 0 <= selected_idx < len,
\* continue_with_selection returns selected_location = locations[selected_idx]
\* and waiting_for_user false, after exactly one pm_agent call, made with that
\* candidate's code and level.
ThmC3 ==
    (ResumeReturned /\ 0 <= selected_idx /\ selected_idx < Len(InLocations)) =>
        /\ state.selected_location = Some(InLocations[selected_idx + 1])
        /\ ~state.waiting_for_user
        /\ fetcherCalls = 1
        /\ IsSet(fetchArgs)
        /\ The(fetchArgs).location_code = InLocations[selected_idx + 1].code
        /\ The(fetchArgs).location_level = InLocations[selected_idx + 1].level

WitC3 ==
    /\ ResumeReturned
    /\ InLocations = <<LocA, LocB>>
    /\ selected_idx = 1
    /\ state.selected_location = Some(LocB)
    /\ The(fetchArgs).location_code = "ARARIA_SD"

\* C4: when the location agent returns no candidate, process_query returns
\* error = "No location found" and waiting_for_user false, without a
\* pm_agent call.
CexC4 ==
    (StartReturned /\ IsSet(resolverResult) /\ ResolvedLocations = <<>>) =>
        /\ state.error = Some("No location found")
        /\ ~state.waiting_for_user
        /\ fetcherCalls = 0

\* C5: for a state with locations and selected_idx >= len(locations),
\* continue_with_selection does not raise: it returns error "Selected index
\* out of range" with the locations unchanged, no location selected and no
\* pm_agent call.
CexC5 ==
    (op = "resume" /\ Len(InLocations) > 0 /\ selected_idx >= Len(InLocations)) =>
        /\ pc # "raised"
        /\ fetcherCalls = 0
        /\ pc = "returned" =>
            /\ state.error = Some("Selected index out of range")
            /\ state.locations = InLocations
            /\ state.selected_location = The(inState).selected_location

\* C6: for a state with locations and a negative selected_idx,
\* continue_with_selection selects no candidate, makes no pm_agent call and
\* returns error "Selected index out of range".
CexC6 ==
    (op = "resume" /\ Len(InLocations) > 0 /\ selected_idx < 0) =>
        /\ fetcherCalls = 0
        /\ state.selected_location = The(inState).selected_location
        /\ pc = "returned" => state.error = Some("Selected index out of range")

\* C7: for a state without locations and any selected_idx,
\* continue_with_selection does not raise: it returns error "No locations to
\* select from", makes no pm_agent call and changes nothing else.
CexC7 ==
    (op = "resume" /\ InLocations = <<>>) =>
        /\ pc # "raised"
        /\ fetcherCalls = 0
        /\ pc = "returned" =>
            state = [The(inState) EXCEPT !.error = Some("No locations to select from")]

\* C8: a state returned by process_query or continue_with_selection with
\* waiting_for_user true has more than one location, no selected location,
\* an empty response and no error.
ThmC8 ==
    (pc = "returned" /\ state.waiting_for_user) =>
        /\ Len(state.locations) > 1
        /\ state.selected_location = None
        /\ state.response = <<>>
        /\ state.error = None

WitC8 ==
    /\ pc = "returned"
    /\ state.waiting_for_user
    /\ Len(state.locations) = 2

\* C9: a state returned with waiting_for_user false has a non-empty response
\* or an error; only a paused state is returned with neither.
ThmC9 ==
    (pc = "returned" /\ ~state.waiting_for_user) =>
        (state.response # <<>> \/ IsSet(state.error))

WitC9 ==
    /\ pc = "returned"
    /\ ~state.waiting_for_user
    /\ state.error = None
    /\ state.pm_data = None
    /\ state.response = CouldNotFetch

\* the pm_agent call of this call reported failure
FetchFailed == IsSet(fetchResult) /\ ~The(fetchResult).success

\* C10 as stated: after a failed fetch the returned error is the agent's
\* message when it gave one and a non-empty fallback message when it gave
\* none, and pm_data is None.
CexC10 ==
    (pc = "returned" /\ FetchFailed) =>
        /\ state.pm_data = None
        /\ IF IsSet(The(fetchResult).error)
           THEN state.error = The(fetchResult).error
           ELSE TruthyStr(state.error)

\* C10 as amended: after a failed fetch the returned error is the agent's
\* message when it gave one and None when it gave none, the fallback text
\* then being the response "Could not fetch PM2.5 data"; pm_data is None.
ThmC10 ==
    (pc = "returned" /\ FetchFailed) =>
        /\ state.pm_data = None
        /\ state.error = The(fetchResult).error
        /\ ~IsSet(The(fetchResult).error) => state.response = CouldNotFetch

WitC10 ==
    /\ pc = "returned"
    /\ FetchFailed
    /\ The(fetchResult).error = None
    /\ state.error = None
    /\ state.response = CouldNotFetch

\* the pm_agent call of this call reported success
FetchSucceeded == IsSet(fetchResult) /\ The(fetchResult).success

\* C11 as stated: in a returned state a set error and a non-empty response
\* exclude each other (on a terminal failure the response stays empty).
CexC11 ==
    pc = "returned" => ~(IsSet(state.error) /\ state.response # <<>>)

\* C11 as amended: in a returned state with a non-empty error the response
\* is that error behind the cross mark and pm_data is None; in a returned
\* state with pm_data the error is None and the response is not empty.
ThmC11 ==
    pc = "returned" =>
        /\ TruthyStr(state.error) =>
            (state.response = <<"[x] ", The(state.error)>> /\ state.pm_data = None)
        /\ IsSet(state.pm_data) =>
            (state.error = None /\ state.response # <<>>)

WitC11 ==
    /\ pc = "returned"
    /\ state.error = Some(NoDataMsg)
    /\ state.response = <<"[x] ", NoDataMsg>>

\* C12: after a successful fetch the returned state has pm_data equal to the
\* agent's answer, a non-empty response and error None, also when the state
\* given to continue_with_selection carried an error; and a returned state
\* has pm_data only if the fetch of this call succeeded.
ThmC12 ==
    pc = "returned" =>
        /\ FetchSucceeded =>
            /\ state.pm_data = fetchResult
            /\ state.response # <<>>
            /\ state.error = None
        /\ IsSet(state.pm_data) => FetchSucceeded

WitC12 ==
    /\ ResumeReturned
    /\ TruthyStr(The(inState).error)
    /\ FetchSucceeded
    /\ state.error = None
    /\ state.pm_data = fetchResult

\* C13: within one process_query call the location agent is called at most
\* once and the PM agent at most once, within one continue_with_selection
\* call the PM agent at most once, and after a collaborator reported failure
\* or raised, the call is never again at a node that calls one.
ThmC13 ==
    /\ resolverCalls <= 1
    /\ fetcherCalls <= 1
    /\ (FetchFailed \/ exc = "PMAgentError") =>
            pc \in {"format_response", "returned", "raised"}
    /\ exc = "LocationAgentError" => pc = "raised"

WitC13 ==
    /\ StartReturned
    /\ resolverCalls = 1
    /\ fetcherCalls = 1
    /\ FetchFailed

\* C14: within one process_query call the PM agent is called only after the
\* location agent has returned, and it is called for a candidate of the list
\* the location agent returned.
ThmC14 ==
    (op = "start" /\ fetcherCalls > 0) =>
        /\ resolverCalls = 1
        /\ IsSet(resolverResult)
        /\ IsSet(fetchArgs)
        /\ \E i \in 1..Len(ResolvedLocations) :
              /\ ResolvedLocations[i].code = The(fetchArgs).location_code
              /\ ResolvedLocations[i].level = The(fetchArgs).location_level
              /\ ResolvedLocations[i].name = The(fetchArgs).location_name

WitC14 ==
    /\ op = "start"
    /\ pc = "format_response"
    /\ fetcherCalls = 1
    /\ ResolvedLocations = <<LocB>>
    /\ The(fetchArgs).location_code = "ARARIA_SD"

\* parse_query has run on the query of the call in flight
Parsed == pc = "search_location" /\ op = "start"

LowerQuery == Lower(state.user_query)

\* the first of " in ", " at ", " for ", in that order, that occurs in the
\* lower-cased query; <<>> if none does
UsedSeparator ==
    IF Contains(LowerQuery, SepIn) THEN SepIn
    ELSE IF Contains(LowerQuery, SepAt) THEN SepAt
    ELSE IF Contains(LowerQuery, SepFor) THEN SepFor
    ELSE <<>>

\* the text after the last place where sep occurs in s, trimmed
AfterLastOccurrence(s, sep) ==
    LET hits == {j \in 1..Len(s) : OccursAt(s, sep, j)}
        last == CHOOSE j \in hits : \A k \in hits : k <= j
    IN  Strip(SubSeq(s, last + Len(sep), Len(s)))

\* C15: with a separator in the lower-cased query, the term is the
\* trimmed text after the last occurrence of the first separator, in the
\* order " in ", " at ", " for ", that occurs.
CexC15 ==
    (Parsed /\ UsedSeparator # <<>>) =>
        state.location_search_term = AfterLastOccurrence(LowerQuery, UsedSeparator)

\* C16: without a separator in the lower-cased query, the term is its last
\* whitespace-delimited token, and "" when it has none.
ThmC16 ==
    (Parsed /\ UsedSeparator = <<>>) =>
        LET q == LowerQuery
            term == state.location_search_term
        IN  IF \A k \in 1..Len(q) : IsSpace(q[k])
            THEN term = <<>>
            ELSE \E i \in 1..Len(q) : \E j \in i..Len(q) :
                    /\ term = SubSeq(q, i, j)
                    /\ \A k \in i..j : ~IsSpace(q[k])
                    /\ \A k \in (j + 1)..Len(q) : IsSpace(q[k])
                    /\ i = 1 \/ IsSpace(q[i - 1])

WitC16 ==
    /\ Parsed
    /\ state.user_query = <<"i", "n", " ", "X", " ">>
    /\ state.location_search_term = <<"x">>

\* the reading of a call that returned the formatted reading
Formatted == pc = "returned" /\ state.error = None /\ IsSet(state.pm_data)

Reading == The(The(state.pm_data).pm25_value)

\* the text after "Category:" in the response
ShownCategory == state.response[12]

\* C17: the category of a reading v is Good iff v <= 30, Satisfactory iff
\* 30 < v <= 60, Moderate iff 60 < v <= 90, Poor iff 90 < v <= 120, Very Poor
\* iff 120 < v <= 250, Severe iff v > 250; a negative reading is Good.
ThmC17 ==
    Formatted =>
        /\ state.response[11] = "[tag] **Category:** "
        /\ ShownCategory = "Good" <=> Reading <= 300
        /\ ShownCategory = "Satisfactory" <=> (300 < Reading /\ Reading <= 600)
        /\ ShownCategory = "Moderate" <=> (600 < Reading /\ Reading <= 900)
        /\ ShownCategory = "Poor" <=> (900 < Reading /\ Reading <= 1200)
        /\ ShownCategory = "Very Poor" <=> (1200 < Reading /\ Reading <= 2500)
        /\ ShownCategory = "Severe" <=> Reading > 2500
        /\ Reading < 0 => ShownCategory = "Good"

WitC17 == Formatted /\ Reading = 2500 /\ ShownCategory = "Very Poor"

\* pm_agent.run reported success without a value
FetchedNoValue ==
    /\ IsSet(fetchResult)
    /\ The(fetchResult).success
    /\ ~IsSet(The(fetchResult).pm25_value)

\* C18: when the fetch succeeds without a value, the call does not fail; it
\* returns a response with category "Unknown" and value text "N/A".
CexC18 ==
    FetchedNoValue =>
        /\ pc # "raised"
        /\ pc = "returned" =>
              /\ Len(state.response) >= 12
              /\ state.response[6] = "N/A"
              /\ state.response[12] = "Unknown"

\* process_query returned the formatted reading of the only candidate the
\* location agent found
SingleFormatted ==
    /\ StartReturned
    /\ IsSet(resolverResult)
    /\ Len(ResolvedLocations) = 1
    /\ FetchSucceeded
    /\ IsSet(The(fetchResult).pm25_value)

FetchedReading == The(The(fetchResult).pm25_value)

\* the marker of the band a reading in tenths falls in
BandMarker(v) ==
    CASE v <= 300 -> "[green]"
      [] 300 < v /\ v <= 600 -> "[yellow]"
      [] 600 < v /\ v <= 900 -> "[orange]"
      [] 900 < v /\ v <= 1200 -> "[red]"
      [] 1200 < v /\ v <= 2500 -> "[purple]"
      [] v > 2500 -> "[brown]"

\* C19 as stated: with one candidate and a successful fetch of v, the
\* response holds the marker of v's band and v with exactly two decimals
\* (45.0 gives "45.00").
CexC19 ==
    SingleFormatted =>
        /\ state.response[1] = BandMarker(FetchedReading)
        /\ \E whole \in 0..MaxReading : \E tenth \in 0..9 :
              /\ FetchedReading = 10 * whole + tenth
              /\ state.response[6] = ToString(whole) \o "." \o ToString(tenth) \o "0"

\* C19 as amended: the response holds the marker of v's band and v with
\* exactly one decimal (45.0 gives "45.0").
ThmC19 ==
    SingleFormatted =>
        /\ state.response[1] = BandMarker(FetchedReading)
        /\ state.response[5] = "[chart] **Current Level:** "
        /\ \E whole \in 0..MaxReading : \E tenth \in 0..9 :
              /\ FetchedReading = 10 * whole + tenth
              /\ state.response[6] = ToString(whole) \o "." \o ToString(tenth)
        /\ state.response[7] = " ug/m3\n"

WitC19 ==
    /\ SingleFormatted
    /\ FetchedReading = 450
    /\ state.response[1] = "[yellow]"
    /\ state.response[6] = "45.0"

\* the call in flight is a continue_with_selection that ended, and the one
\* before it on the same object had the same index
SecondSelection ==
    /\ op = "resume"
    /\ pc \in {"returned", "raised"}
    /\ IsSet(prev)
    /\ The(prev).selected_idx = selected_idx

\* C20: continue_with_selection called twice in sequence with the same
\* paused state and the same in-range index, against a pm_agent that answers
\* the same input the same way, gives the same response and the same
\* selected_location both times.
ThmC20 ==
    SecondSelection =>
        /\ pc = The(prev).outcome
        /\ exc = The(prev).exc
        /\ IndexInRange(InLocations, selected_idx) =>
              /\ state.selected_location = The(prev).selected_location
              /\ pc = "returned" => state.response = The(prev).response

WitC20 ==
    /\ SecondSelection
    /\ pc = "returned"
    /\ selected_idx = 1
    /\ Len(InLocations) = 2
    /\ state.selected_location = Some(LocB)
    /\ The(prev).selected_location = Some(LocB)
    /\ IsSet(state.pm_data)
    /\ state.response = The(prev).response
    /\ state.response # <<>>

\* the call in flight is a continue_with_selection that has ended
ResumeEnded == op = "resume" /\ pc \in {"returned", "raised"}

\* C21: when continue_with_selection returns or fails, every field of the
\* state object the caller passed in is as it was before the call,
\* selected_location and waiting_for_user included.
CexC21 == ResumeEnded => held = inState

\* C22: a state process_query returns has user_query equal to the query it
\* was called with; a state continue_with_selection returns has user_query,
\* location_search_term, locations and needs_disambiguation equal to those
\* of the state it was called with.
ThmC22 ==
    /\ StartReturned => state.user_query = queryArg
    /\ ResumeReturned =>
          /\ state.user_query = The(inState).user_query
          /\ state.location_search_term = The(inState).location_search_term
          /\ state.locations = InLocations
          /\ state.needs_disambiguation = The(inState).needs_disambiguation

WitC22 ==
    /\ ResumeReturned
    /\ IsSet(state.pm_data)
    /\ state.user_query = <<"P", "M", " ", "i", "n", " ", "a">>
    /\ state.location_search_term = <<"a">>
    /\ state.locations = <<LocA, LocB>>
    /\ state.needs_disambiguation

\* the needs_disambiguation flag of the location agent's answer in this call
ResolverFlag == The(resolverResult).needs_disambiguation

\* C23: in a state process_query returns, needs_disambiguation is true iff
\* the location agent returned more than one candidate and marked them
\* ambiguous; it is never true with no or one location.
ThmC23 ==
    StartReturned =>
        /\ state.needs_disambiguation
               <=> (Len(ResolvedLocations) > 1 /\ ResolverFlag = Some(TRUE))
        /\ state.needs_disambiguation => Len(state.locations) > 1

WitC23 ==
    /\ StartReturned
    /\ Len(state.locations) = 1
    /\ ResolverFlag = Some(FALSE)
    /\ ~state.needs_disambiguation
    /\ IsSet(state.pm_data)

\* what process_query returns for a query when the location agent answers
\* rres and the PM agent, if it is called, answers fres (without an answer
\* of the PM agent the call is still at fetch_pm_data)
AloneStart(query, rres, fres) ==
    LET resolved == handle_disambiguation(
                        search_location(parse_query(initial_state(query)), rres))
    IN  IF resolved.waiting_for_user THEN resolved
        ELSE IF ~IsSet(resolved.selected_location)
             THEN format_response(fetch_no_selection(resolved))
             ELSE IF IsSet(fres)
                  THEN format_response(fetch_pm_data(resolved, The(fres)))
                  ELSE resolved

\* what continue_with_selection returns for a state and an index when the
\* PM agent answers fres
AloneResume(s, idx, fres) ==
    format_response(fetch_pm_data(select_location(s, idx), The(fres)))

\* C24: with two callers whose calls interleave on one workflow instance,
\* each on its own state, a call returns the state it returns when it runs
\* alone with the same answers of the agents.
ThmC24 ==
    /\ StartReturned =>
          state = AloneStart(queryArg, The(resolverResult), fetchResult)
    /\ ResumeReturned =>
          state = AloneResume(The(inState), selected_idx, fetchResult)

\* a resume of one caller returned while the start of the other is under way
WitC24 ==
    /\ ResumeReturned
    /\ IsSet(state.pm_data)
    /\ other.op = "start"
    /\ other.pc = "fetch_pm_data"
    /\ other.state.user_query # state.user_query
    /\ other.state.locations # state.locations

\* location_agent.run was called in this call and has not returned a result
ResolveRaised == op = "start" /\ resolverCalls > 0 /\ ~IsSet(resolverResult)

\* pm_agent.run was called in this call and has not returned a result
FetchRaised == fetcherCalls > 0 /\ ~IsSet(fetchResult)

\* the error of the state the call started from
ErrorAtEntry == IF op = "resume" THEN The(inState).error ELSE None

\* C25: when location_agent.run or pm_agent.run raises, the call fails with
\* that exception: it returns no state and nothing is written into error.
ThmC25 ==
    /\ ResolveRaised =>
          (pc = "raised" /\ exc = "LocationAgentError" /\ state.error = ErrorAtEntry)
    /\ FetchRaised =>
          (pc = "raised" /\ exc = "PMAgentError" /\ state.error = ErrorAtEntry)

WitC25 ==
    /\ FetchRaised
    /\ op = "resume"
    /\ pc = "raised"
    /\ exc = "PMAgentError"
    /\ state.error = None

\* every agent call this call has made has returned
AgentsAnswered == ~ResolveRaised /\ ~FetchRaised

\* C26: when every agent call returns, process_query returns: after
\* parse_query and search_location it ends either paused at
\* handle_disambiguation or after fetch_pm_data and format_response, each
\* node run once, and it does not end any other way.
CexC26 ==
    (op = "start" /\ AgentsAnswered) =>
        /\ pc \in {"parse_query", "search_location", "handle_disambiguation",
                   "fetch_pm_data", "format_response", "returned"}
        /\ resolverCalls <= 1
        /\ fetcherCalls <= 1
        /\ (pc = "returned" /\ state.waiting_for_user) => fetcherCalls = 0

\* POST /query/select has ended; its body held a paused state, as POST /query
\* returned it, and an index from 0 to len(locations) - 1
SelectionPosted ==
    /\ ResumeEnded
    /\ The(inState).waiting_for_user
    /\ 0 <= selected_idx
    /\ selected_idx < Len(InLocations)

\* C27: posting a paused state that POST /query returned, unmodified, to
\* POST /query/select with an index in [0, len(locations)) is not rejected
\* with a 4xx status and the reply carries a non-empty formatted_response.
CexC27 ==
    (SelectionPosted /\ AgentsAnswered) =>
        /\ HttpReply.status = 200
        /\ HttpReply.formatted_response # <<>>

\* the location search of this call gave no location: no row, a NULL
\* column, or an empty list (as a list or as JSON text)
SearchGaveNothing ==
    /\ IsSet(searchRows)
    /\ \/ The(searchRows) = <<>>
       \/ ~IsSet(The(searchRows)[1].locations)
       \/ The(The(searchRows)[1].locations).items = <<>>

\* C28: for every search term, the empty one included, when the location
\* search gives nothing the location agent returns, with an empty locations
\* list and no set needs_disambiguation, and the workflow state then has
\* locations [] and needs_disambiguation false.
ThmC28 ==
    SearchGaveNothing =>
        /\ IsSet(resolverResult)
        /\ exc # "LocationAgentError"
        /\ The(resolverResult).locations = Some(<<>>)
        /\ ResolverFlag # Some(TRUE)
        /\ state.locations = <<>>
        /\ ~state.needs_disambiguation

WitC28 ==
    /\ SearchGaveNothing
    /\ queryArg = <<>>
    /\ state.location_search_term = <<>>
    /\ The(searchRows) = <<>>
    /\ pc = "returned"
    /\ state.locations = <<>>

\* the locations the search of this call gave, <<>> if it gave nothing
SearchItems ==
    IF SearchGaveNothing THEN <<>> ELSE The(The(searchRows)[1].locations).items

\* C29: when the location search gives n >= 1 locations, run returns success
\* with exactly n locations in the order of the search, each with the keys
\* code, level and name, with count n and needs_disambiguation = (n > 1).
ThmC29 ==
    (IsSet(searchRows) /\ Len(SearchItems) >= 1) =>
        LET result == The(resolverResult)
            n == Len(SearchItems)
        IN  /\ result.success
            /\ IsSet(result.locations)
            /\ Len(The(result.locations)) = n
            /\ \A i \in 1..n :
                  /\ {"code", "level", "name"} \subseteq DOMAIN The(result.locations)[i]
                  /\ The(result.locations)[i].code = SearchItems[i].code
                  /\ The(result.locations)[i].level = SearchItems[i].level
                  /\ The(result.locations)[i].name = SearchItems[i].name
            /\ result.count = Some(n)
            /\ result.needs_disambiguation = Some(n > 1)

WitC29 ==
    /\ IsSet(searchRows)
    /\ SearchItems = <<DbLocB, DbLocA>>
    /\ The(The(searchRows)[1].locations).json
    /\ The(resolverResult).locations = Some(<<LocB, LocA>>)
    /\ The(resolverResult).count = Some(2)

\* the search gave the JSON text of an empty list
SearchGaveEmptyJson ==
    /\ SearchGaveNothing
    /\ The(searchRows) # <<>>
    /\ IsSet(The(searchRows)[1].locations)
    /\ The(The(searchRows)[1].locations).json

StartDecided ==
    /\ op = "start"
    /\ IsSet(resolverResult)
    /\ pc \in {"fetch_pm_data", "format_response", "returned", "raised"}

\* C31: process_query pauses exactly when needs_disambiguation is set and
\* there is more than one location; with locations and no pause (the flag set
\* with one candidate, or several candidates without the flag) it selects
\* locations[0] and goes on to the fetch.
ThmC31 ==
    StartDecided =>
        LET pause == state.needs_disambiguation /\ Len(state.locations) > 1
        IN  /\ state.waiting_for_user <=> pause
            /\ pause => (pc = "returned" /\ fetcherCalls = 0)
            /\ (~pause /\ state.locations # <<>>) =>
                  /\ state.selected_location = Some(state.locations[1])
                  /\ pc \in {"format_response", "returned"} =>
                        /\ fetcherCalls = 1
                        /\ The(fetchArgs).location_code = state.locations[1].code
                        /\ The(fetchArgs).location_level = state.locations[1].level

WitC31 ==
    /\ StartReturned
    /\ state.locations = <<LocB, LocA>>
    /\ ~state.needs_disambiguation
    /\ state.selected_location = Some(LocB)
    /\ fetcherCalls = 1

\* the PM2.5 query of this call returned no row
StoreGaveNothing == IsSet(metricRows) /\ The(metricRows) = <<>>

\* C32: when the PM2.5 query returns no rows, PMDataAgent.run reports
\* success false with error "No PM2.5 data available for this location", and
\* the state process_query / continue_with_selection returns has that message
\* in error and pm_data None.
ThmC32 ==
    StoreGaveNothing =>
        /\ IsSet(fetchResult)
        /\ ~The(fetchResult).success
        /\ The(fetchResult).error = Some("No PM2.5 data available for this location")
        /\ pc \in {"format_response", "returned"}
        /\ state.error = Some("No PM2.5 data available for this location")
        /\ state.pm_data = None

WitC32 ==
    /\ StoreGaveNothing
    /\ ResumeReturned
    /\ state.error = Some(NoDataMsg)
    /\ state.selected_location = Some(LocB)

\* the body of the POST /query/select in progress has an object for state
\* with a non-empty list for locations, and a selected_index that converts
\* to an integer from 0 to len(locations) - 1
ValidSelection ==
    LET body == The(request)
    IN  /\ body.state_kind = "object"
        /\ body.locations_kind = "list"
        /\ InLocations # <<>>
        /\ body.index_kind = "number"
        /\ \E idx \in 0..(Len(InLocations) - 1) :
              /\ 10 * idx <= body.tenths \/ (idx = 0 /\ body.tenths > 0 - 10)
              /\ body.tenths < 10 * (idx + 1)

Asked == InLocations[selected_idx + 1]

\* C34: of two overlapping continue_with_selection calls on one state object
\* with different indices, each returns a state whose selected_location, the
\* location named in the response and the location of the reading in pm_data
\* are the location of its own index.
CexC34 ==
    (ResumeReturned /\ IsSet(state.pm_data)) =>
        /\ state.selected_location = Some(Asked)
        /\ state.response[3] = Asked.name
        /\ The(state.pm_data).location_code = Asked.code

\* C35: in every state of the chat session of ui/app.py, between two runs of
\* the script, a current_state that is set (the chat input is then disabled) is
\* waiting_for_user and has locations, so the selection buttons are offered;
\* also after a continue_with_selection that failed part-way.
CexC35 ==
    (pc = "idle" /\ IsSet(held)) =>
        /\ The(held).waiting_for_user
        /\ The(held).locations # <<>>

\* C36: in ui/streamlit_pm_query.py, after a selection request that succeeds,
\* issued by a click on an option or by Retry replaying a failed selection,
\* the session has waiting_for_selection = false and workflow_state = None,
\* and no paused state is selected successfully twice.
CexC36 ==
    /\ selected # "" => (~waiting_for_selection /\ workflow_state = None)
    /\ fetched <= 1

\* C37: concurrent get_or_compute calls on the same key, missing at first and
\* never expired, invoke compute_fn once, and all callers receive the same
\* value.
CexC37 ==
    /\ \A k \in CacheKeys : computed[k] <= 1
    /\ \A t1, t2 \in Tasks :
          (tasks[t1].pc = "done" /\ tasks[t2].pc = "done" /\ tasks[t1].key = tasks[t2].key)
              => tasks[t1].value = tasks[t2].value

\* the get just made found an entry under its key
GetFound == IsSet(lastCall) /\ The(lastCall).key \in DOMAIN The(lastCall).cache

\* the get just made found an entry that had not expired
GetFoundLive ==
    /\ GetFound
    /\ ~is_expired(The(lastCall).cache[The(lastCall).key], now)

====
